---- MODULE Spec2Model ----
(***************************************************************************)
(* Model of the group controller of rosa-namespace-provisioner             *)
(* (pkg/controller/controller.go): the informer event handlers, the        *)
(* reconciliation pass handleGroup, createUserProject, createRoleBinding,  *)
(* and the project / role-binding store they act on through the clients.   *)
(*                                                                         *)
(* Every client call is one step, so that gateway failures and the writes  *)
(* of other actors can fall between any two calls of a pass.               *)
(***************************************************************************)
EXTENDS Integers, Sequences, FiniteSets, TLC

\* ------------------------------------------------------------------ bounds
\* Longest member list an event carries.
MaxLen == 2

\* Most writes other actors make to the store during one run of a handler.
MaxExt == 1

\* Most notifications the informer queues for the handlers in one run of the
\* process.
MaxEvents == 2

\* Highest resource version of a group object.
MaxVersion == 2

\* Member identifiers (usernames); a project is named after its member.
Users == {"alice", "bob", "charlie"}

\* ------------------------------------------------------------- data types
\* userv1.Group.Users: an ordered list that may hold duplicates.
Lists == UNION {[1..n -> Users] : n \in 0..MaxLen}

\* The loops of handleGroup that load a member list into a map[string]bool.
ToSet(list) == {list[k] : k \in DOMAIN list}

\* The members a Users list names more than once.
Repeated(list) ==
    {list[k] : k \in {m \in DOMAIN list : \E n \in DOMAIN list : n # m /\ list[n] = list[m]}}

\* Every order in which `range` may walk a Go map with the keys S.
Orders(S) == {s \in [1..Cardinality(S) -> S] : \A a, b \in DOMAIN s : a # b => s[a] # s[b]}

\* fmt.Sprintf("%s-edit", projectName)
RoleBindingName(projectName) == <<projectName, "-edit">>

\* Variant: the role reference names the ClusterRole admin.
RoleBindingForAdmin(user, projectName) ==
    [name |-> RoleBindingName(projectName), namespace |-> projectName,
     subjectKind |-> "User", subject |-> user,
     roleKind |-> "ClusterRole", role |-> "admin"]

\* The rbacv1.RoleBinding object createRoleBinding builds.
RoleBindingFor(user, projectName) ==
    [name |-> RoleBindingName(projectName), namespace |-> projectName,
     subjectKind |-> "User", subject |-> user,
     roleKind |-> "ClusterRole", role |-> "edit"]

VARIABLES
    projects,      \* store: names of the existing projects
    rbs,           \* store: the existing role bindings (records)
    pc,            \* position of the controller's single worker
    entry,         \* the function the worker was entered through
    oldNil,        \* handleGroup: oldGroup == nil
    oldUsers,      \* handleGroup: map oldUsers (its key set)
    newUsers,      \* handleGroup: map newUsers (its key set)
    addedUsers,    \* handleGroup: slice addedUsers
    removedUsers,  \* handleGroup: slice removedUsers
    dupUsers,      \* handleGroup: members listed more than once in a Users list
    oldVersion,    \* handleGroup: oldGroup.ResourceVersion (0: oldGroup == nil)
    newVersion,    \* handleGroup: newGroup.ResourceVersion
    i,             \* index of the member the current loop is at
    argUser,       \* parameter user of createUserProject / createRoleBinding
    argProject,    \* parameter projectName of createRoleBinding
    ret,           \* error returned by the last createUserProject / createRoleBinding
    calls,         \* client calls issued since the worker was entered
    projects0,     \* projects when the worker was entered
    rbs0,          \* role bindings when the worker was entered
    prov,          \* members whose last step provisioned them without failure
    prov0,         \* prov when the worker was entered
    failed,        \* members whose last provisioning step met a failure
    track,         \* the record `failed` is kept
    env,           \* the process environment: the values TARGET_GROUP_NAME is set to
    target,        \* the group name in the field selector of the informer
    rvMax,         \* the resource versions group objects carry are 1..rvMax
    hist,          \* record of the events handled so far (kept when hist.on)
    ext,           \* writes of other actors since the worker was entered
    flaky,         \* client calls may fail with an error that is neither
                   \* not-found nor already-exists
    event,         \* kind of the event the running handler was called for
    active,        \* handler invocations begun and not yet returned
    runPc,         \* position of main / Controller.Run ("none": Run not called)
    cancelled,     \* ctx of Run is cancelled (a signal arrived, cancel() ran)
    stopCh,        \* Controller.stopCh: "open" or "closed"
    informer,      \* the informer goroutine: "idle", "listing", "synced", "stopped"
    apiUp,         \* the informer's initial list of the group can succeed
    cached,        \* the group is in the informer's cache
    queue,         \* notifications the informer has queued for the handlers
    delivered,     \* number of notifications the informer has queued so far
    filtered,      \* number of group changes the field selector kept from the informer
    consumed,      \* number of the notification handed to a handler last
    exited         \* the process has exited

vars == <<projects, rbs, pc, entry, oldNil, oldUsers, newUsers, addedUsers,
          removedUsers, dupUsers, oldVersion, newVersion, i, argUser, argProject, ret,
          calls, projects0, rbs0,
          prov, prov0, failed, track, env, target, rvMax, hist, ext, flaky, event,
          active, runPc,
          cancelled, stopCh, informer, apiUp, cached, queue, delivered, filtered,
          consumed, exited>>

store == <<projects, rbs>>
locals == <<oldNil, oldUsers, newUsers, addedUsers, removedUsers, dupUsers,
            oldVersion, newVersion>>
worker == <<projects, rbs, pc, entry, oldNil, oldUsers, newUsers, addedUsers,
            removedUsers, dupUsers, oldVersion, newVersion, i, argUser, argProject, ret,
          calls, projects0, rbs0,
            prov, prov0, failed, track, env, target, rvMax, hist, ext, flaky, event,
          active>>
loop == <<runPc, cancelled, stopCh, informer, apiUp, cached, queue, delivered, filtered,
          consumed, exited>>

\* ------------------------------------------------------------ the gateway
\* Role bindings stored under (namespace, name).
RbAt(set, ns, name) == {r \in set : r.namespace = ns /\ r.name = name}

\* A call may fail for a reason of its own (network, permissions, ...).
Failure == IF flaky THEN {"err"} ELSE {}

\* Outcomes of Projects().Get(name): found, not found, or any other failure.
GetProjectOutcomes(name) ==
    (IF name \in projects THEN {"ok"} ELSE {"notFound"}) \cup Failure

\* Outcomes of Projects().Create(name).
CreateProjectOutcomes(name) ==
    (IF name \in projects THEN {"alreadyExists"} ELSE {"ok"}) \cup Failure

\* Outcomes of Projects().Delete(name).
DeleteProjectOutcomes(name) ==
    (IF name \in projects THEN {"ok"} ELSE {"notFound"}) \cup Failure

\* Outcomes of RoleBindings(ns).Get(name).
GetRoleBindingOutcomes(ns, name) ==
    (IF RbAt(rbs, ns, name) # {} THEN {"ok"} ELSE {"notFound"}) \cup Failure

\* Outcomes of RoleBindings(ns).Create(rb).
CreateRoleBindingOutcomes(ns, name) ==
    (IF RbAt(rbs, ns, name) # {} THEN {"alreadyExists"} ELSE {"ok"}) \cup Failure

\* Whether the *Project returned by Get is nil.  On success it is the object.
\* On an error the generated clientset returns the empty object it allocated
\* and the fake clientset returns nil: either may be linked in.
GetProjectNil(res) == IF res = "ok" THEN {FALSE} ELSE {TRUE, FALSE}

Call(op, name, res) == [op |-> op, name |-> name, res |-> res]

\* ---------------------------------------------------------- configuration
\* const defaultTargetGroupName
defaultTargetGroupName == "redhat-ai-dev-users"

\* os.Getenv("TARGET_GROUP_NAME"): the value the variable is set to, and the
\* empty string when it is not set.
Getenv(e) == IF e = {} THEN "" ELSE CHOOSE v \in e : TRUE

\* Variant: the value of the variable is returned as it is.
GetTargetGroupNameNoDefault(e) == Getenv(e)

\* GetTargetGroupName
GetTargetGroupName(e) ==
    LET groupName == Getenv(e)
    IN IF groupName = "" THEN defaultTargetGroupName ELSE groupName

\* ------------------------------------------------------------------- Init
\* A role binding lives in a namespace, so at start it is inside a project.
InitWorker ==
    /\ projects \in SUBSET Users
    /\ rbs \in SUBSET {RoleBindingFor(u, u) : u \in projects}
    /\ pc = "idle"
    /\ entry = "none"
    /\ oldNil = TRUE
    /\ oldUsers = {}
    /\ newUsers = {}
    /\ addedUsers = <<>>
    /\ removedUsers = <<>>
    /\ dupUsers = {}
    /\ oldVersion = 0
    /\ newVersion = 0
    /\ i = 0
    /\ argUser = "none"
    /\ argProject = "none"
    /\ ret = "none"
    /\ calls = <<>>
    /\ projects0 = projects
    /\ rbs0 = rbs
    /\ prov = {}
    /\ failed = {}
    /\ prov0 = {}
    /\ ext = 0
    /\ event = "none"
    /\ active = 0
    /\ env = {}
    /\ target = GetTargetGroupName(env)

\* Run is not called: the handlers are invoked directly on a constructed
\* Controller, as the package's tests do.
NoRun ==
    /\ runPc = "none"
    /\ cancelled = FALSE
    /\ stopCh = "open"
    /\ informer = "idle"
    /\ apiUp = TRUE
    /\ cached = FALSE
    /\ queue = <<>>
    /\ delivered = 0
    /\ filtered = 0
    /\ consumed = 0
    /\ exited = FALSE

\* ----------------------------------------------------- the event record
\* No record is kept.
HistOff ==
    [on |-> FALSE, kind |-> "none", prev |-> "none", chain |-> FALSE,
     members |-> {}, orphans |-> {}]

\* The record before the first event.
HistOn == [HistOff EXCEPT !.on = TRUE]

\* The record once the handler of an event of the given kind has been
\* called with the old members `old` and the members `new` of the group
\* object it is passed, the projects being `projs`.
\*   kind:    the event's kind;
\*   members: the members of its group object (dropped, as of no further
\*            use, once the chain is broken and no orphan is left);
\*   prev:    the kind of the event before it;
\*   chain:   the events so far are one Add followed by Updates each of
\*            which has for old members the members of the event before it;
\*   orphans: members of a group that was deleted and created again who
\*            had a project at the creation and have not been in the group
\*            since the deletion.
HistAfter(h, kind, old, new, projs) ==
    IF ~h.on THEN h
    ELSE LET follows == h.kind \in {"Add", "Update"} /\ old = h.members
             chain == CASE kind = "Add" -> h.kind = "none"
                        [] kind = "Update" -> h.chain /\ follows
                        [] OTHER -> FALSE
             orphans == CASE kind = "Add" /\ h.kind = "Delete" -> (h.members \ new) \cap projs
                          [] kind = "Update" /\ follows -> h.orphans \ new
                          [] OTHER -> {}
         IN [on |-> TRUE,
             kind |-> kind,
             prev |-> h.kind,
             chain |-> chain,
             members |-> IF chain \/ orphans # {} \/ kind = "Delete" THEN new ELSE {},
             orphans |-> orphans]

\* The controller on a store whose calls may fail.
Init ==
    InitWorker /\ NoRun /\ flaky = TRUE /\ track = FALSE /\ rvMax = 1 /\ hist = HistOff

\* The controller on a reliable store that other actors write to.
InitRace ==
    InitWorker /\ NoRun /\ flaky = FALSE /\ track = FALSE /\ rvMax = 1 /\ hist = HistOff

\* -------------------------------------------------------------- the diff
\* Mutant of Added: every current member counts as added, the previous
\* members are not consulted.
AddedAll(old, new) == new

\* handleGroup, "Find added users": keys of newUsers not in oldUsers.
Added(old, new) == new \ old

\* Variant: every previous member counts as removed, the current members
\* are not consulted.
RemovedAll(old, new) == old

\* handleGroup, "Find removed users": keys of oldUsers not in newUsers.
Removed(old, new) == old \ new

\* Variant: the controller keeps the members it saw last and takes them for
\* the old members of a group that is created.
OldOfRemembered(isNil, oldList) == IF isNil THEN hist.members ELSE ToSet(oldList)

\* handleGroup: the keys of the map oldUsers, which stays empty when oldGroup
\* is nil.
OldOf(isNil, oldList) == IF isNil THEN {} ELSE ToSet(oldList)

\* Variant: the added members are collected by ranging over the slice
\* newGroup.Users itself instead of the map built from it.
AddedSlicesFromList(old, newList) ==
    {SelectSeq(newList, LAMBDA u : u \notin old)}

\* handleGroup, "Find added users": the slices `addedUsers` can be after
\* ranging over the map newUsers (in any order) and appending.
AddedSlices(old, newList) == Orders(Added(old, ToSet(newList)))

\* Variant: the removed loop ranges over all keys of oldUsers.
RemovedSlicesAllOld(oldList, isNil, new) ==
    Orders(IF isNil THEN {} ELSE ToSet(oldList))

\* handleGroup, "Find removed users": the slices `removedUsers` can be after
\* ranging over the map oldUsers (in any order) and appending.
RemovedSlices(oldList, isNil, new) ==
    Orders(Removed(OldOf(isNil, oldList), new))

\* The ResourceVersion oldGroup can carry (0 stands for oldGroup == nil).
OldVersions(isNil) == IF isNil THEN {0} ELSE 1..rvMax

\* Variant: an Update whose new object is not newer than the old one is
\* taken for a resync and skipped.
DiffSkipNotNewer(isNil, oldList, newList, ov, nv) ==
    IF ~isNil /\ nv <= ov
      THEN {<<(<<>>), (<<>>)>>}
      ELSE AddedSlices(OldOf(isNil, oldList), newList)
               \X RemovedSlices(oldList, isNil, ToSet(newList))

\* handleGroup from its entry to the end of the diff: the pairs
\* <<addedUsers, removedUsers>> it can arrive at for two group objects with
\* the Users oldList, newList and the ResourceVersions ov, nv (which are
\* logged at V(2)).
Diff(isNil, oldList, newList, ov, nv) ==
    AddedSlices(OldOf(isNil, oldList), newList)
        \X RemovedSlices(oldList, isNil, ToSet(newList))

\* Where handleGroup goes once the added loop is over (or was skipped).
AfterAdded(removed) == IF Len(removed) > 0 THEN "remGetProject" ELSE "done"

\* Variant: the two loops are alternatives (`else if`), the added loop
\* being skipped when there are removed members.
AfterDiffEither(added, removed) ==
    IF Len(removed) > 0 THEN "remGetProject"
    ELSE IF Len(added) > 0 THEN "addGetProject" ELSE "done"

\* Where handleGroup goes after the diff.
AfterDiff(added, removed) ==
    IF Len(added) > 0 THEN "addGetProject" ELSE AfterAdded(removed)

\* Variant: the two Users lists are compared as lists, and when they differ
\* every member of the new list is taken for added.
handleGroupByList(isNil, oldList, newList) ==
    /\ UNCHANGED <<flaky, track, env, target, rvMax>>
    /\ active' = active + 1
    /\ LET old == OldOf(isNil, oldList)
           new == ToSet(newList)
       IN /\ hist' = HistAfter(hist, IF isNil THEN "Add" ELSE "Update", old, new, projects)
          /\ oldNil' = isNil
          /\ oldUsers' = old
          /\ newUsers' = new
          /\ dupUsers' = (IF isNil THEN {} ELSE Repeated(oldList)) \cup Repeated(newList)
          /\ \E ov \in OldVersions(isNil), nv \in 1..rvMax :
               /\ oldVersion' = ov
               /\ newVersion' = nv
               /\ \E d \in Diff(isNil \/ oldList # newList, oldList, newList, ov, nv) :
                    /\ addedUsers' = d[1]
                    /\ removedUsers' = d[2]
                    /\ pc' = AfterDiff(d[1], d[2])
    /\ entry' = "handleGroup"
    /\ i' = 1
    /\ calls' = <<>>
    /\ projects0' = projects
    /\ rbs0' = rbs
    /\ prov0' = prov
    /\ ext' = 0
    /\ ret' = "none"
    /\ UNCHANGED <<projects, rbs, argUser, argProject, prov, failed>>

\* handleGroup(oldGroup, newGroup) up to the first client call.
\* isNil: oldGroup == nil; oldList, newList: the Users of the two groups.
handleGroup(isNil, oldList, newList) ==
    /\ UNCHANGED <<flaky, track, env, target, rvMax>>
    /\ active' = active + 1
    /\ LET old == OldOf(isNil, oldList)
           new == ToSet(newList)
       IN /\ hist' = HistAfter(hist, IF isNil THEN "Add" ELSE "Update", old, new, projects)
          /\ oldNil' = isNil
          /\ oldUsers' = old
          /\ newUsers' = new
          /\ dupUsers' = (IF isNil THEN {} ELSE Repeated(oldList)) \cup Repeated(newList)
          /\ \E ov \in OldVersions(isNil), nv \in 1..rvMax :
               /\ oldVersion' = ov
               /\ newVersion' = nv
               /\ \E d \in Diff(isNil, oldList, newList, ov, nv) :
                    /\ addedUsers' = d[1]
                    /\ removedUsers' = d[2]
                    /\ pc' = AfterDiff(d[1], d[2])
    /\ entry' = "handleGroup"
    /\ i' = 1
    /\ calls' = <<>>
    /\ projects0' = projects
    /\ rbs0' = rbs
    /\ prov0' = prov
    /\ ext' = 0
    /\ ret' = "none"
    /\ UNCHANGED <<projects, rbs, argUser, argProject, prov, failed>>

\* ------------------------------------------------------- informer handlers
\* The process is running: its goroutines take steps.
Alive == ~exited

\* Variant: the handler funcs start handleGroup with `go`, so the next
\* notification is handed over at once.
ListenerFreeAsync == TRUE

\* The handler funcs call handleGroup in line (no `go`), so the goroutine
\* that hands the notifications over is inside the handler until it returns.
ListenerFree == pc = "idle"

\* The handler func for `kind` is called.  Under Run it is called with the
\* notification at the head of the informer's queue; without Run it is
\* called directly.
Take(kind) ==
    /\ Alive
    /\ ListenerFree
    /\ event' = kind
    /\ IF runPc = "none"
          THEN UNCHANGED loop
          ELSE /\ queue # <<>>
               /\ Head(queue).kind = kind
               /\ queue' = Tail(queue)
               /\ consumed' = Head(queue).seq
               /\ UNCHANGED <<runPc, cancelled, stopCh, informer, apiUp, cached,
                              delivered, filtered, exited>>

\* Mutant of AddFunc: the group is passed as the old group, so that its
\* members count as removed.
AddFuncAsRemoval == Take("Add") /\ \E g \in Lists : handleGroup(FALSE, g, <<>>)

\* AddEventHandler, AddFunc.
AddFunc == Take("Add") /\ \E g \in Lists : handleGroup(TRUE, <<>>, g)

\* AddEventHandler, UpdateFunc.
UpdateFunc ==
    Take("Update") /\ \E o \in Lists, n \in Lists : handleGroup(FALSE, o, n)

\* Mutant of DeleteFunc: the deletion of the group is handled as the removal
\* of all its members.
DeleteFuncTearDown == Take("Delete") /\ \E g \in Lists : handleGroup(FALSE, g, <<>>)

\* AddEventHandler, DeleteFunc: logs at V(4), nothing else.
DeleteFunc ==
    /\ Take("Delete")
    /\ UNCHANGED <<flaky, track, env, target, rvMax>>
    /\ \E g \in Lists : hist' = HistAfter(hist, "Delete", {}, ToSet(g), projects)
    /\ active' = active + 1
    /\ pc' = "done"
    /\ entry' = "DeleteFunc"
    /\ calls' = <<>>
    /\ projects0' = projects
    /\ rbs0' = rbs
    /\ prov0' = prov
    /\ ext' = 0
    /\ ret' = "none"
    /\ UNCHANGED <<projects, rbs, locals, i, argUser, argProject, prov, failed>>

\* ------------------------------------------------------- the added loop
\* The member the running loop is at.
CurAdded == addedUsers[i]

\* Variant: the removed loop reads the first element of the slice in every
\* iteration instead of its loop variable.
CurRemovedFirst == removedUsers[1]

\* The member the removed loop is at.
CurRemoved == removedUsers[i]

\* A member's calls all succeeded: every create and delete returned ok and
\* every lookup returned ok or not-found.
Clean(cs, u) ==
    \A k \in DOMAIN cs :
        cs[k].name = u =>
            \/ cs[k].res = "ok"
            \/ cs[k].res = "notFound" /\ cs[k].op \in {"getProject", "getRoleBinding"}

\* Bookkeeping at the end of the added-loop body for member u.
ProvAfter(cs, u) == IF Clean(cs, u) THEN prov \cup {u} ELSE prov \ {u}

\* Bookkeeping at the end of the added-loop body for member u: whether the
\* member's step met a failure.
FailedAfter(cs, u) ==
    IF ~track THEN failed
    ELSE IF Clean(cs, u) THEN failed \ {u} ELSE failed \cup {u}

\* Mutant of NextAdded: a member whose calls failed ends the pass (`return`
\* where the code only logs).
NextAddedAbort(cs) ==
    /\ prov' = ProvAfter(cs, CurAdded)
    /\ failed' = FailedAfter(cs, CurAdded)
    /\ IF Clean(cs, CurAdded) /\ i < Len(addedUsers)
          THEN pc' = "addGetProject" /\ i' = i + 1
          ELSE IF Clean(cs, CurAdded)
                 THEN pc' = AfterAdded(removedUsers) /\ i' = 1
                 ELSE pc' = "done" /\ i' = 1

\* handleGroup: `for _, user := range addedUsers`, the step to the next
\* member, and past the loop to the removed loop.
NextAdded(cs) ==
    /\ prov' = ProvAfter(cs, CurAdded)
    /\ failed' = FailedAfter(cs, CurAdded)
    /\ IF i < Len(addedUsers)
          THEN pc' = "addGetProject" /\ i' = i + 1
          ELSE pc' = AfterAdded(removedUsers) /\ i' = 1

\* handleGroup: `for _, user := range removedUsers`, the step to the next
\* member, and past the loop to the end of handleGroup.
NextRemoved ==
    IF i < Len(removedUsers)
      THEN pc' = "remGetProject" /\ i' = i + 1
      ELSE pc' = "done" /\ i' = 1

\* Mutant of OnAddedProjectGet: the project is created whether or not the
\* lookup found it.
OnAddedProjectGetAlwaysCreate(res) ==
    IF res \in {"notFound", "ok"} THEN "createProject" ELSE "next"

\* handleGroup, added loop: the branch taken on the result of the project
\* lookup.
OnAddedProjectGet(res) ==
    CASE res = "notFound" -> "createProject"
      [] res = "ok"       -> "addGetRB"
      [] OTHER            -> "next"

\* Variant: every lookup error is taken for not-found.
AddGetProjectErrIsNotFound ==
    /\ Alive
    /\ UNCHANGED <<flaky, track, env, target, rvMax, hist, event, active, loop>>
    /\ pc = "addGetProject"
    /\ \E res \in GetProjectOutcomes(CurAdded) :
         /\ calls' = Append(calls, Call("getProject", CurAdded, res))
         /\ pc' = IF res = "ok" THEN "addGetRB" ELSE "createProject"
         /\ argUser' = CurAdded
         /\ argProject' = CurAdded
         /\ UNCHANGED <<i, prov, failed>>
    /\ UNCHANGED <<store, entry, locals, ret, projects0, rbs0, prov0, ext>>

\* handleGroup, added loop: Projects().Get(user) and its branches.
AddGetProject ==
    /\ Alive
    /\ UNCHANGED <<flaky, track, env, target, rvMax, hist, event, active, loop>>
    /\ pc = "addGetProject"
    /\ \E res \in GetProjectOutcomes(CurAdded) :
         LET cs == Append(calls, Call("getProject", CurAdded, res))
             to == OnAddedProjectGet(res)
         IN /\ calls' = cs
            /\ IF to = "next"
                  THEN NextAdded(cs) /\ UNCHANGED <<argUser, argProject>>
                  ELSE /\ pc' = to
                       /\ argUser' = CurAdded
                       /\ argProject' = CurAdded
                       /\ UNCHANGED <<i, prov, failed>>
    /\ UNCHANGED <<store, entry, locals, ret, projects0, rbs0, prov0, ext>>

\* Mutant of OnAddedRbGet: a missing role binding is only logged.
OnAddedRbGetSkip(res) == "next"

\* handleGroup, added loop: the branch taken on the result of the role
\* binding lookup of a member whose project exists.
OnAddedRbGet(res) == IF res = "notFound" THEN "createRB" ELSE "next"

\* Variant: the result of the role binding lookup is not consulted, the role
\* binding is created in any case.
AddGetRBAlwaysCreate ==
    /\ Alive
    /\ UNCHANGED <<flaky, track, env, target, rvMax, hist, event, active, loop>>
    /\ pc = "addGetRB"
    /\ \E res \in GetRoleBindingOutcomes(CurAdded, RoleBindingName(CurAdded)) :
         /\ calls' = Append(calls, Call("getRoleBinding", CurAdded, res))
         /\ pc' = "createRB"
         /\ UNCHANGED <<i, prov, failed>>
    /\ UNCHANGED <<store, entry, locals, argUser, argProject, ret, projects0,
                   rbs0, prov0, ext>>

\* handleGroup, added loop: RoleBindings(user).Get(roleBindingName).
AddGetRB ==
    /\ Alive
    /\ UNCHANGED <<flaky, track, env, target, rvMax, hist, event, active, loop>>
    /\ pc = "addGetRB"
    /\ \E res \in GetRoleBindingOutcomes(CurAdded, RoleBindingName(CurAdded)) :
         LET cs == Append(calls, Call("getRoleBinding", CurAdded, res))
             to == OnAddedRbGet(res)
         IN /\ calls' = cs
            /\ IF to = "next"
                  THEN NextAdded(cs)
                  ELSE pc' = to /\ UNCHANGED <<i, prov, failed>>
    /\ UNCHANGED <<store, entry, locals, argUser, argProject, ret, projects0,
                   rbs0, prov0, ext>>

\* ----------------------------------- createUserProject, createRoleBinding
\* Mutant of ErrOf: already-exists is swallowed and nil returned.
ErrOfTolerant(res) == IF res \in {"ok", "alreadyExists"} THEN "nil" ELSE res

\* The error a create call hands back: nil on success.
ErrOf(res) == IF res = "ok" THEN "nil" ELSE res

\* Back in the caller after createUserProject / createRoleBinding returned.
BackInCaller(cs) ==
    IF entry = "handleGroup"
      THEN NextAdded(cs)
      ELSE pc' = "done" /\ UNCHANGED <<i, prov, failed>>

\* Mutant of OnCreateProject: the role binding step after a successful
\* create is left out.
OnCreateProjectNoBinding(res) == "return"

\* createUserProject: what follows Projects().Create.
OnCreateProject(res) == IF res = "ok" THEN "createRB" ELSE "return"

\* Variant: createUserProject logs the error of Projects().Create and goes on
\* to createRoleBinding.
CreateProjectBindAnyway ==
    /\ Alive
    /\ UNCHANGED <<flaky, track, env, target, rvMax, hist, event, active, loop>>
    /\ pc = "createProject"
    /\ \E res \in CreateProjectOutcomes(argUser) :
         /\ calls' = Append(calls, Call("createProject", argUser, res))
         /\ projects' = IF res = "ok" THEN projects \cup {argUser} ELSE projects
         /\ pc' = "createRB"
         /\ argProject' = argUser
         /\ UNCHANGED <<ret, i, prov, failed>>
    /\ UNCHANGED <<rbs, entry, locals, argUser, projects0, rbs0, prov0, ext>>

\* createUserProject(user): Projects().Create, then createRoleBinding on
\* success and `return err` on any error.
CreateProject ==
    /\ Alive
    /\ UNCHANGED <<flaky, track, env, target, rvMax, hist, event, active, loop>>
    /\ pc = "createProject"
    /\ \E res \in CreateProjectOutcomes(argUser) :
         LET cs == Append(calls, Call("createProject", argUser, res))
             to == OnCreateProject(res)
         IN /\ calls' = cs
            /\ projects' = IF res = "ok" THEN projects \cup {argUser} ELSE projects
            /\ IF to = "return"
                  THEN ret' = ErrOf(res) /\ BackInCaller(cs) /\ UNCHANGED argProject
                  ELSE /\ pc' = to
                       /\ argProject' = argUser
                       /\ UNCHANGED <<ret, i, prov, failed>>
    /\ UNCHANGED <<rbs, entry, locals, argUser, projects0, rbs0, prov0, ext>>

\* Variant: when RoleBindings(projectName).Create fails, createRoleBinding
\* rolls back by deleting the project.
CreateRBRollback ==
    /\ Alive
    /\ UNCHANGED <<flaky, track, env, target, rvMax, hist, event, active, loop>>
    /\ pc = "createRB"
    /\ \E res \in CreateRoleBindingOutcomes(argProject, RoleBindingName(argProject)) :
         LET c1 == Append(calls, Call("createRoleBinding", argProject, res))
             cs == IF res = "ok"
                     THEN c1
                     ELSE Append(c1, Call("deleteProject", argProject, "ok"))
         IN /\ calls' = cs
            /\ rbs' = IF res = "ok"
                         THEN rbs \cup {RoleBindingFor(argUser, argProject)}
                         ELSE rbs
            /\ projects' = IF res = "ok" THEN projects ELSE projects \ {argProject}
            /\ ret' = ErrOf(res)
            /\ BackInCaller(cs)
    /\ UNCHANGED <<entry, locals, argUser, argProject, projects0, rbs0, prov0, ext>>

\* createRoleBinding(user, projectName): RoleBindings(projectName).Create
\* and the error it returns.
CreateRB ==
    /\ Alive
    /\ UNCHANGED <<flaky, track, env, target, rvMax, hist, event, active, loop>>
    /\ pc = "createRB"
    /\ \E res \in CreateRoleBindingOutcomes(argProject, RoleBindingName(argProject)) :
         LET cs == Append(calls, Call("createRoleBinding", argProject, res))
         IN /\ calls' = cs
            /\ rbs' = IF res = "ok"
                         THEN rbs \cup {RoleBindingFor(argUser, argProject)}
                         ELSE rbs
            /\ ret' = ErrOf(res)
            /\ BackInCaller(cs)
    /\ UNCHANGED <<projects, entry, locals, argUser, argProject, projects0,
                   rbs0, prov0, ext>>

\* ------------------------------------------------------ the removed loop
\* Variant: the removed loop repeats the lookup until it returns a project.
OnRemovedProjectGetRetry(isNilPtr) ==
    IF ~isNilPtr THEN "remDelete" ELSE "remGetProject"

\* handleGroup, removed loop: `if project != nil`.
OnRemovedProjectGet(isNilPtr) == IF ~isNilPtr THEN "remDelete" ELSE "next"

\* handleGroup, removed loop: Projects().Get(user); an error is logged and
\* the nil test on the returned pointer decides alone.
RemGetProject ==
    /\ Alive
    /\ UNCHANGED <<flaky, track, env, target, rvMax, hist, event, active, loop>>
    /\ pc = "remGetProject"
    /\ \E res \in GetProjectOutcomes(CurRemoved) :
         \E isNilPtr \in GetProjectNil(res) :
           LET to == OnRemovedProjectGet(isNilPtr)
           IN /\ calls' = Append(calls, Call("getProject", CurRemoved, res))
              /\ IF to = "next" THEN NextRemoved ELSE pc' = to /\ UNCHANGED i
    /\ UNCHANGED <<store, entry, locals, argUser, argProject, ret, projects0,
                   rbs0, prov, prov0, failed, ext>>

\* Variant: the removed loop also deletes the role bindings of the project
\* it deletes.
RemDeleteCascade ==
    /\ Alive
    /\ UNCHANGED <<flaky, track, env, target, rvMax, hist, event, active, loop>>
    /\ pc = "remDelete"
    /\ \E res \in DeleteProjectOutcomes(CurRemoved) :
         /\ calls' = Append(calls, Call("deleteProject", CurRemoved, res))
         /\ projects' = IF res = "ok" THEN projects \ {CurRemoved} ELSE projects
         /\ rbs' = IF res = "ok" THEN {r \in rbs : r.namespace # CurRemoved} ELSE rbs
         /\ prov' = IF res = "ok" THEN prov \ {CurRemoved} ELSE prov
         /\ UNCHANGED failed
    /\ NextRemoved
    /\ UNCHANGED <<entry, locals, argUser, argProject, ret, projects0,
                   rbs0, prov0, ext>>

\* handleGroup, removed loop: Projects().Delete(user); an error is logged.
RemDelete ==
    /\ Alive
    /\ UNCHANGED <<flaky, track, env, target, rvMax, hist, event, active, loop>>
    /\ pc = "remDelete"
    /\ \E res \in DeleteProjectOutcomes(CurRemoved) :
         /\ calls' = Append(calls, Call("deleteProject", CurRemoved, res))
         /\ projects' = IF res = "ok" THEN projects \ {CurRemoved} ELSE projects
         /\ prov' = IF res = "ok" THEN prov \ {CurRemoved} ELSE prov
         /\ UNCHANGED failed
    /\ NextRemoved
    /\ UNCHANGED <<rbs, entry, locals, argUser, argProject, ret, projects0,
                   rbs0, prov0, ext>>

\* The handler returns: its locals are gone and the worker is free for the
\* next event.
Finish ==
    /\ Alive
    /\ UNCHANGED <<flaky, track, env, target, rvMax, hist, loop>>
    /\ event' = "none"
    /\ active' = active - 1
    /\ pc = "done"
    /\ pc' = "idle"
    /\ entry' = "none"
    /\ oldNil' = TRUE
    /\ oldUsers' = {}
    /\ newUsers' = {}
    /\ addedUsers' = <<>>
    /\ removedUsers' = <<>>
    /\ dupUsers' = {}
    /\ oldVersion' = 0
    /\ newVersion' = 0
    /\ i' = 0
    /\ argUser' = "none"
    /\ argProject' = "none"
    /\ ret' = "none"
    /\ calls' = <<>>
    /\ projects0' = projects
    /\ rbs0' = rbs
    /\ prov0' = prov
    /\ ext' = 0
    /\ UNCHANGED <<projects, rbs, prov, failed>>

\* One client call of the worker.
Step ==
    \/ AddGetProject
    \/ AddGetRB
    \/ CreateProject
    \/ CreateRB
    \/ RemGetProject
    \/ RemDelete

\* --------------------------------------------------------- specifications
\* The controller alone on the store; any client call may fail.
Next ==
    \/ AddFunc
    \/ UpdateFunc
    \/ DeleteFunc
    \/ Step
    \/ Finish

Spec == Init /\ [][Next]_vars

\* ----------------------------------------------------------- other actors
\* Another client of the store creates project u.
ExtCreateProject ==
    \E u \in Users \ projects :
        /\ projects' = projects \cup {u}
        /\ prov' = prov \ {u}
        /\ UNCHANGED rbs

\* Another client of the store deletes project u.
ExtDeleteProject ==
    \E u \in projects :
        /\ projects' = projects \ {u}
        /\ prov' = prov \ {u}
        /\ UNCHANGED rbs

\* Another client of the store creates the role binding u-edit in project u.
ExtCreateRoleBinding ==
    \E u \in projects :
        /\ RbAt(rbs, u, RoleBindingName(u)) = {}
        /\ rbs' = rbs \cup {RoleBindingFor(u, u)}
        /\ prov' = prov \ {u}
        /\ UNCHANGED projects

\* Another client of the store (or the deletion of the namespace) removes a
\* role binding.
ExtDeleteRoleBinding ==
    \E r \in rbs :
        /\ rbs' = rbs \ {r}
        /\ prov' = prov \ {r.namespace}
        /\ UNCHANGED projects

\* One write of another actor, at any point of a handler's run.
Other ==
    /\ UNCHANGED <<flaky, track, env, target, rvMax, hist, event, active, loop>>
    /\ pc \notin {"idle", "done"}
    /\ ext < MaxExt
    /\ ext' = ext + 1
    /\ \/ ExtCreateProject
       \/ ExtDeleteProject
       \/ ExtCreateRoleBinding
       \/ ExtDeleteRoleBinding
    /\ UNCHANGED <<pc, entry, locals, i, argUser, argProject, ret, calls,
                   projects0, rbs0, prov0, failed>>

\* The controller and other actors writing to the same store.
NextRace == Next \/ Other

SpecRace == InitRace /\ [][NextRace]_vars

\* The controller alone on a store whose calls may fail, with the record of
\* the members whose provisioning failed.
InitResync ==
    InitWorker /\ NoRun /\ flaky = TRUE /\ track = TRUE /\ rvMax = 1 /\ hist = HistOff

SpecResync == InitResync /\ [][Next]_vars

\* The controller alone on a reliable store, with group objects of the
\* resource versions 1..MaxVersion in any order.
InitVersion ==
    /\ InitWorker /\ NoRun /\ flaky = FALSE /\ track = FALSE
    /\ rvMax = MaxVersion /\ hist = HistOff

SpecVersion == InitVersion /\ [][Next]_vars

\* The controller alone on a reliable store (a call returns ok, not-found or
\* already-exists as the store dictates), with the record of the events kept.
InitChain ==
    InitWorker /\ NoRun /\ flaky = FALSE /\ track = FALSE /\ rvMax = 1 /\ hist = HistOn

SpecChain == InitChain /\ [][Next]_vars

\* ------------------------------------------- the functions called directly
\* Entry into createUserProject / createRoleBinding from outside handleGroup,
\* as the package's tests call them.
Enter(fn, user, projectName, at) ==
    /\ UNCHANGED <<flaky, track, env, target, rvMax, hist, loop>>
    /\ event' = "none"
    /\ active' = active + 1
    /\ pc = "idle"
    /\ pc' = at
    /\ entry' = fn
    /\ argUser' = user
    /\ argProject' = projectName
    /\ calls' = <<>>
    /\ projects0' = projects
    /\ rbs0' = rbs
    /\ prov0' = prov
    /\ ext' = 0
    /\ ret' = "none"
    /\ UNCHANGED <<projects, rbs, locals, i, prov, failed>>

\* createUserProject(user)
CallCreateUserProject ==
    \E u \in Users : Enter("createUserProject", u, "none", "createProject")

\* createRoleBinding(user, projectName)
CallCreateRoleBinding ==
    \E u \in Users, p \in Users : Enter("createRoleBinding", u, p, "createRB")

\* The values the tests, and a deployment, give TARGET_GROUP_NAME: not set,
\* set to the empty string, set to a name.
EnvValues == {{}, {""}, {"my-custom-group"}}

\* NewController (and GetTargetGroupName) called with TARGET_GROUP_NAME as
\* the caller left it.
CallNewController ==
    /\ pc = "idle"
    /\ \E e \in EnvValues :
         /\ env' = e
         /\ target' = GetTargetGroupName(e)
    /\ UNCHANGED <<projects, rbs, pc, entry, locals, i, argUser, argProject, ret,
                   calls, projects0, rbs0, prov, prov0, failed, track, rvMax, hist, ext,
                   flaky, event, active, loop>>

NextUnit ==
    \/ CallNewController
    \/ CallCreateUserProject
    \/ CallCreateRoleBinding
    \/ CreateProject
    \/ CreateRB
    \/ Finish

SpecUnit == Init /\ [][NextUnit]_vars

\* ------------------------------------------------------------ Run and main
\* main has built the clients and the Controller (NewController returned),
\* and is about to call Run; the store is reliable.
InitLoop ==
    /\ InitWorker
    /\ flaky = FALSE
    /\ track = FALSE
    /\ rvMax = 1
    /\ hist = HistOff
    /\ runPc = "Initializing"
    /\ cancelled = FALSE
    /\ stopCh = "open"
    /\ informer = "idle"
    /\ apiUp \in BOOLEAN
    /\ cached = FALSE
    /\ queue = <<>>
    /\ delivered = 0
    /\ filtered = 0
    /\ consumed = 0
    /\ exited = FALSE

\* Run: `go c.informer.Run(c.stopCh)`.
RunStart ==
    /\ Alive
    /\ runPc = "Initializing"
    /\ runPc' = "Syncing"
    /\ informer' = "listing"
    /\ UNCHANGED <<worker, cancelled, stopCh, apiUp, cached, queue, delivered, filtered,
                   consumed, exited>>

\* Variant: Run does not wait for the cache (the wait returns true at once).
SyncDoneAlways == TRUE

\* cache.WaitForCacheSync(c.stopCh, c.informer.HasSynced) returns true: the
\* informer reports HasSynced.
SyncDone == informer = "synced"

\* Variant: the wait is given ctx.Done() as its stop channel.
WaitAbortedOnCancel == cancelled

\* cache.WaitForCacheSync(c.stopCh, ...) returns false: its stop channel,
\* c.stopCh, is closed.
WaitAborted == stopCh = "closed"

\* Run: the wait for the cache sync returns; on false Run returns the error
\* "failed to wait for caches to sync", on true it goes on to wait for ctx.
RunWaitSync ==
    /\ Alive
    /\ runPc = "Syncing"
    /\ WaitAborted \/ SyncDone
    /\ runPc' = IF WaitAborted THEN "Failed" ELSE "Watching"
    /\ UNCHANGED <<worker, cancelled, stopCh, informer, apiUp, cached, queue,
                   delivered, filtered, consumed, exited>>

\* Variant: Run waits on a context that is never cancelled
\* (context.Background() instead of the ctx main passes).
CtxDoneNever == FALSE

\* `<-ctx.Done()` has something to receive.
CtxDone == cancelled

\* Run: `<-ctx.Done()` returns.
RunCancelled ==
    /\ Alive
    /\ runPc = "Watching"
    /\ CtxDone
    /\ runPc' = "ShuttingDown"
    /\ UNCHANGED <<worker, cancelled, stopCh, informer, apiUp, cached, queue,
                   delivered, filtered, consumed, exited>>

\* Run: `close(c.stopCh)` and `return nil`.
RunStop ==
    /\ Alive
    /\ runPc = "ShuttingDown"
    /\ stopCh' = "closed"
    /\ runPc' = "Stopped"
    /\ UNCHANGED <<worker, cancelled, informer, apiUp, cached, queue, delivered, filtered,
                   consumed, exited>>

\* main: Run has returned; main returns (or klog.Fatalf exits) and the
\* process with all its goroutines is gone.
MainExit ==
    /\ Alive
    /\ runPc \in {"Stopped", "Failed"}
    /\ exited' = TRUE
    /\ UNCHANGED <<worker, runPc, cancelled, stopCh, informer, apiUp, cached,
                   queue, delivered, filtered, consumed>>

\* main: SIGINT / SIGTERM arrives, the signal goroutine calls cancel().
Signal ==
    /\ Alive
    /\ runPc # "none"
    /\ ~cancelled
    /\ cancelled' = TRUE
    /\ UNCHANGED <<worker, runPc, stopCh, informer, apiUp, cached, queue,
                   delivered, filtered, consumed, exited>>

\* The informer finishes its initial list: HasSynced turns true.
InformerSynced ==
    /\ Alive
    /\ informer = "listing"
    /\ apiUp
    /\ informer' = "synced"
    /\ UNCHANGED <<worker, runPc, cancelled, stopCh, apiUp, cached, queue,
                   delivered, filtered, consumed, exited>>

\* informer.Run(stopCh) returns once stopCh is closed.
InformerStop ==
    /\ Alive
    /\ informer \in {"listing", "synced"}
    /\ stopCh = "closed"
    /\ informer' = "stopped"
    /\ UNCHANGED <<worker, runPc, cancelled, stopCh, apiUp, cached, queue,
                   delivered, filtered, consumed, exited>>

\* The kinds of notification the informer can produce next: Add for a group
\* that is not in its cache (the initial list included), Update and Delete
\* for one that is; while it is listing, only the Add of the initial list.
Deliverable ==
    IF cached
      THEN (IF informer = "synced" THEN {"Update", "Delete"} ELSE {})
      ELSE {"Add"}

\* The names of the groups that exist on the API server.
GroupNames == {defaultTargetGroupName, "redhat-ai-dev-edit-users"}

\* Variant: the informer lists and watches all groups.
SelectedAll(g) == TRUE

\* fields.OneTermEqualSelector("metadata.name", targetGroupName): the list and
\* the watch of the informer return the group of that name only.
Selected(g) == g = target

\* A group changes on the API server (or the informer resyncs): if the field
\* selector lets the group through, the informer queues a notification for
\* the registered handlers.
Deliver ==
    /\ Alive
    /\ informer \in {"listing", "synced"}
    /\ apiUp
    /\ delivered + filtered < MaxEvents
    /\ \E g \in GroupNames :
         IF Selected(g)
           THEN /\ \E kind \in Deliverable :
                     /\ queue' = Append(queue, [kind |-> kind, seq |-> delivered + 1,
                                                group |-> g])
                     /\ cached' = (kind # "Delete")
                /\ delivered' = delivered + 1
                /\ UNCHANGED filtered
           ELSE /\ filtered' = filtered + 1
                /\ UNCHANGED <<queue, cached, delivered>>
    /\ UNCHANGED <<worker, runPc, cancelled, stopCh, informer, apiUp, consumed,
                   exited>>

\* The process: Run in main, the signal goroutine, the informer, and the
\* handlers the informer calls.
NextLoop ==
    \/ RunStart
    \/ RunWaitSync
    \/ RunCancelled
    \/ RunStop
    \/ MainExit
    \/ Signal
    \/ InformerSynced
    \/ InformerStop
    \/ Deliver
    \/ AddFunc
    \/ UpdateFunc
    \/ DeleteFunc
    \/ Step
    \/ Finish

\* The goroutine of main is scheduled fairly: a step of Run that can be taken
\* is taken.
SpecLoop ==
    /\ InitLoop
    /\ [][NextLoop]_vars
    /\ WF_vars(RunStart)
    /\ WF_vars(RunWaitSync)
    /\ WF_vars(RunCancelled)
    /\ WF_vars(RunStop)

\* =================================================================== claims
\* The calls of the current run made for member / project u, in order.
CallsOf(u) == SelectSeq(calls, LAMBDA c : c.name = u)

\* The ops and results of those calls.
Trace(u) == [k \in DOMAIN CallsOf(u) |-> <<CallsOf(u)[k].op, CallsOf(u)[k].res>>]

\* No call of the current run failed with an unexpected error.
NoFailure == \A k \in DOMAIN calls : calls[k].res # "err"

\* Some call of the current run for u had operation op.
Issued(op, u) == \E k \in DOMAIN calls : calls[k].op = op /\ calls[k].name = u

\* A reconciliation pass has just run to its end.
PassDone == pc = "done" /\ entry = "handleGroup"

HasRoleBinding(u) == RbAt(rbs, u, RoleBindingName(u)) # {}

\* C1: after handleGroup(old, new) without an unexpected gateway failure and
\* without another actor, the existing projects are exactly the initial ones
\* plus those of the members in new but not old, minus those of the members
\* in old but not new.
C1_ProjectsAfterPass ==
    (PassDone /\ NoFailure) =>
        projects = (projects0 \cup (newUsers \ oldUsers)) \ (oldUsers \ newUsers)

\* C1 witness: {alice, charlie} -> {alice, bob} with project charlie
\* pre-existing: charlie deleted, bob created, alice untouched.
C1_Witness ==
    /\ PassDone /\ NoFailure /\ ~oldNil
    /\ oldUsers = {"alice", "charlie"} /\ newUsers = {"alice", "bob"}
    /\ projects0 = {"charlie"} /\ projects = {"bob"}
    /\ Issued("createProject", "bob") /\ Issued("deleteProject", "charlie")

C3_ErrorIsolation ==
    PassDone =>
        /\ \A u \in (newUsers \ oldUsers) \cup (oldUsers \ newUsers) :
              Issued("getProject", u)
        /\ \A u \in newUsers \ oldUsers :
              Clean(calls, u) => u \in projects /\ HasRoleBinding(u)
        /\ \A u \in oldUsers \ newUsers :
              Clean(calls, u) => u \notin projects

\* C3 witness: a call for one member failed and a member processed after it
\* was provisioned from scratch all the same.
C3_Witness ==
    /\ PassDone
    /\ \E k, l \in DOMAIN calls :
         /\ k < l
         /\ calls[k].res = "err"
         /\ calls[l].name # calls[k].name
         /\ calls[l].op = "createProject" /\ calls[l].res = "ok"
         /\ Clean(calls, calls[l].name)
         /\ calls[l].name \in projects /\ HasRoleBinding(calls[l].name)

\* C4: provisioning is idempotent.  When member u was provisioned by its
\* previous step and nothing changed since, provisioning u again issues no
\* create call, leaves exactly one project u and one role binding u-edit, and
\* (the lookups answering) meets no error: both lookups report found.
C4_ProvisionIdempotent ==
    PassDone =>
        \A u \in (newUsers \ oldUsers) \cap prov0 :
            /\ ~Issued("createProject", u)
            /\ ~Issued("createRoleBinding", u)
            /\ u \in projects
            /\ Cardinality(RbAt(rbs, u, RoleBindingName(u))) = 1
            /\ (\A k \in DOMAIN calls : calls[k].name = u => calls[k].res # "err")
                  => Trace(u) = <<(<<"getProject", "ok">>), (<<"getRoleBinding", "ok">>)>>

\* C4 witness: a second provisioning of a member provisioned before.
C4_Witness ==
    /\ PassDone
    /\ \E u \in (newUsers \ oldUsers) \cap prov0 :
         /\ Trace(u) = <<(<<"getProject", "ok">>), (<<"getRoleBinding", "ok">>)>>
         /\ u \in prov

\* C5: when another actor creates project u between the lookup (not found)
\* and the create call, so that the create returns already-exists, the pass
\* still performs the role-binding step for u and u ends the pass with role
\* binding u-edit.
C5_AlreadyExistsStillBinds ==
    PassDone =>
        \A k \in DOMAIN calls :
            (calls[k].op = "createProject" /\ calls[k].res = "alreadyExists") =>
                /\ \E l \in DOMAIN calls :
                      /\ l > k
                      /\ calls[l].name = calls[k].name
                      /\ calls[l].op \in {"getRoleBinding", "createRoleBinding"}
                /\ HasRoleBinding(calls[k].name)

\* A unit call of createUserProject / createRoleBinding has just returned.
UnitDone(fn) == pc = "done" /\ entry = fn

\* C6: createUserProject(u) called when project u already exists returns no
\* error and leaves project u in place (no unexpected gateway failure).
C6_CreateExistingProjectSucceeds ==
    (UnitDone("createUserProject") /\ argUser \in projects0 /\ NoFailure) =>
        ret = "nil" /\ argUser \in projects

\* C7: createRoleBinding(user, project) called when role binding
\* <project>-edit already exists in the project (here: bound to the same
\* user) returns no error and the role binding exists exactly once.
C7_CreateExistingRoleBindingSucceeds ==
    (/\ UnitDone("createRoleBinding")
     /\ RoleBindingFor(argUser, argProject) \in rbs0
     /\ NoFailure) =>
        /\ ret = "nil"
        /\ Cardinality(RbAt(rbs, argProject, RoleBindingName(argProject))) = 1

\* C8: once role binding p-edit is bound to u1, createRoleBinding(u2, p) for
\* another user u2 returns an error and leaves the store, and with it the
\* binding of u1, as it was.
C8_SecondRoleBindingRejected ==
    (/\ UnitDone("createRoleBinding")
     /\ \E r \in RbAt(rbs0, argProject, RoleBindingName(argProject)) :
           r.subject # argUser) =>
        /\ ret # "nil"
        /\ rbs = rbs0
        /\ projects = projects0

\* C8 witness: the binding of u1 came from an earlier createRoleBinding(u1, p)
\* (u1 is not the project's namesake) and the call for u2 met already-exists.
C8_Witness ==
    /\ UnitDone("createRoleBinding")
    /\ ret = "alreadyExists"
    /\ \E r \in RbAt(rbs0, argProject, RoleBindingName(argProject)) :
         /\ r.subject # argUser
         /\ r.subject # argProject
         /\ r \in rbs

\* C9: an added member with a project but no role binding: the pass issues
\* no createProject for the member, and (the member's calls answering) it
\* looks the project and the role binding up, creates the role binding and
\* nothing else, so that <member>-edit exists afterwards.
C9_OnlyMissingRoleBinding ==
    PassDone =>
        \A u \in (newUsers \ oldUsers) \cap projects0 :
            RbAt(rbs0, u, RoleBindingName(u)) = {} =>
                /\ ~Issued("createProject", u)
                /\ u \in projects
                /\ Clean(calls, u) =>
                      /\ Trace(u) = <<(<<"getProject", "ok">>),
                                      (<<"getRoleBinding", "notFound">>),
                                      (<<"createRoleBinding", "ok">>)>>
                      /\ RbAt(rbs, u, RoleBindingName(u)) = {RoleBindingFor(u, u)}

\* C9 witness: alice has a project and no role binding and is added.
C9_Witness ==
    /\ PassDone
    /\ "alice" \in (newUsers \ oldUsers) \cap projects0
    /\ RbAt(rbs0, "alice", RoleBindingName("alice")) = {}
    /\ Clean(calls, "alice")
    /\ RoleBindingFor("alice", "alice") \in rbs

\* C10: deprovisioning a removed member whose project lookup reports
\* not-found is a no-op: no deleteProject call for the member, store unchanged.
C10_NotFoundIsNoOp ==
    PassDone =>
        \A u \in oldUsers \ newUsers :
            (\E k \in DOMAIN calls : calls[k] = Call("getProject", u, "notFound")) =>
                /\ ~Issued("deleteProject", u)
                /\ (u \in projects) = (u \in projects0)

\* C11: deprovisioning a removed member whose project lookup fails with an
\* error other than not-found aborts for that member: no deleteProject call
\* is issued for it in that pass.
C11_LookupErrorAborts ==
    PassDone =>
        \A u \in oldUsers \ newUsers :
            (\E k \in DOMAIN calls : calls[k] = Call("getProject", u, "err")) =>
                ~Issued("deleteProject", u)

\* A handler called for an event of this kind has run to its end.
HandlerDone(kind) == pc = "done" /\ event = kind

\* No project was created or deleted by the running handler.
NoProjectWritten ==
    /\ \A u \in Users : ~Issued("createProject", u) /\ ~Issued("deleteProject", u)
    /\ projects = projects0

\* C12: a Deleted event for the group is ignored: the handler issues no
\* gateway call and every project and role binding is still there after it.
C12_DeletedIgnored ==
    event = "Delete" => calls = <<>> /\ projects = projects0 /\ rbs = rbs0

\* C12 witness: the Delete handler returned on a store that holds projects
\* and role bindings.
C12_Witness ==
    HandlerDone("Delete") /\ entry = "DeleteFunc" /\ projects # {} /\ rbs # {}

C14_SerializedFifo ==
    /\ [](active <= 1)
    /\ [][consumed' # consumed =>
            /\ pc = "idle"
            /\ active = 0
            /\ queue # <<>>
            /\ consumed' = Head(queue).seq
            /\ consumed' = consumed + 1]_vars

\* C14 witness: a pass is in the middle of its member loop while the next
\* notification is already waiting in the queue.
C14_Witness ==
    /\ runPc = "Watching"
    /\ pc \in {"addGetProject", "createProject", "addGetRB", "createRB",
               "remGetProject", "remDelete"}
    /\ active = 1
    /\ consumed = 1
    /\ queue # <<>>

\* A handler call is in the middle of a member's gateway calls.
MidMember ==
    pc \in {"createProject", "addGetRB", "createRB", "remDelete"}

\* C15: an in-flight per-member step completes before shutdown is honoured:
\* while a pass is in the middle of a member's gateway calls, Run has not
\* returned (the loop is not Stopped) and the process has not exited.
C15_InFlightCompletes ==
    [][MidMember => /\ (runPc' = "Stopped" => runPc = "Stopped")
                    /\ (exited' => exited)]_vars

\* C16: if the informer's initial synchronization cannot complete (the API
\* server cannot be listed), Run returns the error "failed to wait for caches
\* to sync": it neither enters Watching nor blocks forever.
C16_SyncFailureIsFatal == (runPc = "Syncing" /\ ~apiUp) ~> (runPc = "Failed")

\* C17: once the initial sync has completed, a cancellation signal eventually
\* leads to the informer's stop channel being closed and Run returning nil
\* (the loop reaches Stopped), when the goroutine of main is scheduled fairly.
C17_CancelLeadsToStopped ==
    (informer = "synced" /\ cancelled /\ runPc \in {"Syncing", "Watching"})
        ~> (runPc = "Stopped" /\ stopCh = "closed")

\* C17 witness: after a signal Run has returned nil and the informer, told to
\* stop, has stopped.
C17_Witness ==
    /\ cancelled
    /\ runPc = "Stopped"
    /\ stopCh = "closed"
    /\ informer = "stopped"

\* The position of a control-loop state in the order of Run's statements.
Rank(s) ==
    CASE s = "Initializing" -> 1
      [] s = "Syncing"      -> 2
      [] s = "Watching"     -> 3
      [] s = "ShuttingDown" -> 4
      [] s = "Stopped"      -> 5

\* C18: the control loop only moves forward through Initializing, Syncing,
\* Watching, ShuttingDown, Stopped, one state at a time and never back;
\* Watching is entered only after the informer reported its initial sync,
\* Watching is left only when the context has been cancelled, and Stopped is
\* terminal.
C18_ForwardOnly ==
    [][/\ runPc \in {"Initializing", "Syncing", "Watching", "ShuttingDown",
                     "Stopped"}
       /\ runPc' # runPc => Rank(runPc') = Rank(runPc) + 1
       /\ (runPc # "Watching" /\ runPc' = "Watching") => informer = "synced"
       /\ (runPc = "Watching" /\ runPc' # "Watching") => cancelled
       /\ runPc = "Stopped" => runPc' = "Stopped"]_vars

\* C18 witness: the loop has left Watching for ShuttingDown after serving a
\* notification.
C18_Witness ==
    /\ runPc = "ShuttingDown"
    /\ informer = "synced"
    /\ cancelled
    /\ consumed >= 1

\* C19: cancellation is observed only between the steps of Run: a signal that
\* arrives while Run waits for the initial sync does not end the wait (Run
\* leaves Syncing only for Watching, and only once the informer has synced),
\* and the informer's stop channel is closed only after the wait has returned
\* and the cancellation has been received (Run is past ShuttingDown).
C19_CancelBetweenSteps ==
    /\ [](stopCh = "closed" => cancelled /\ runPc = "Stopped")
    /\ [][(runPc = "Syncing" /\ runPc' # "Syncing") =>
              informer = "synced" /\ runPc' = "Watching"]_vars
    /\ [][(runPc = "Syncing" /\ cancelled /\ informer # "synced") =>
              runPc' = "Syncing" /\ stopCh' = "open"]_vars

\* C19 witness: the signal has arrived while Run waits for the initial sync;
\* Run is still waiting and the informer still lists.
C19_Witness ==
    /\ cancelled
    /\ runPc = "Syncing"
    /\ informer = "listing"
    /\ stopCh = "open"
    /\ delivered >= 1

\* C20: for every previous and current member list, a user is in `added`
\* exactly if it is a current member and not a previous one, and in `removed`
\* exactly if it is a previous member and not a current one; each user is
\* listed once, and no user is in both.
C20_DiffIsSetDifference ==
    entry = "handleGroup" =>
        /\ \A u \in Users :
             /\ u \in ToSet(addedUsers) <=> (u \in newUsers /\ u \notin oldUsers)
             /\ u \in ToSet(removedUsers) <=> (u \in oldUsers /\ u \notin newUsers)
        /\ Len(addedUsers) = Cardinality(ToSet(addedUsers))
        /\ Len(removedUsers) = Cardinality(ToSet(removedUsers))
        /\ ToSet(addedUsers) \cap ToSet(removedUsers) = {}

\* C20 witness: a pass whose group gained a member, lost a member and kept
\* one.
C20_Witness ==
    /\ entry = "handleGroup"
    /\ ~oldNil
    /\ addedUsers # <<>>
    /\ removedUsers # <<>>
    /\ oldUsers \cap newUsers # {}

\* The number of calls of the current run for member u with an operation in ops.
Count(ops, u) == Len(SelectSeq(calls, LAMBDA c : c.name = u /\ c.op \in ops))

\* C21: member lists have set semantics: whatever the Users lists of the
\* event repeat, a pass issues for each member at most one project lookup and
\* at most one project create or delete.
C21_SetSemantics ==
    entry = "handleGroup" =>
        \A u \in Users :
            /\ Count({"getProject"}, u) <= 1
            /\ Count({"createProject", "deleteProject"}, u) <= 1

\* C21 witness: a member listed twice in the event was looked up once and
\* its project created once.
C21_Witness ==
    /\ PassDone
    /\ \E u \in dupUsers \cap newUsers :
         /\ Count({"getProject"}, u) = 1
         /\ Count({"createProject"}, u) = 1
         /\ u \in projects

\* The member whose iteration a pass is in.
Member ==
    IF pc \in {"remGetProject", "remDelete"} THEN removedUsers[i] ELSE addedUsers[i]

\* The projects / role bindings whose create, or delete, succeeded in the
\* current run.
Created == {u \in Users : \E k \in DOMAIN calls : calls[k] = Call("createProject", u, "ok")}
Deleted == {u \in Users : \E k \in DOMAIN calls : calls[k] = Call("deleteProject", u, "ok")}
Bound == {u \in Users : \E k \in DOMAIN calls : calls[k] = Call("createRoleBinding", u, "ok")}

\* C22: the end state of a pass does not depend on the order of iteration.
\* Every step of a pass touches only the project and the role bindings of
\* the member whose iteration it belongs to, and at the end of the pass the
\* projects and role bindings are given by the state at entry and by which
\* members' creates and deletes succeeded, whatever the order of the calls.
C22_OrderIndependent ==
    /\ [][(entry = "handleGroup" /\ pc \notin {"idle", "done"}) =>
             /\ projects' \ {Member} = projects \ {Member}
             /\ {r \in rbs' : r.namespace # Member} = {r \in rbs : r.namespace # Member}]_vars
    /\ [](PassDone =>
             /\ projects = (projects0 \cup Created) \ Deleted
             /\ rbs = rbs0 \cup {RoleBindingFor(u, u) : u \in Bound})

\* C22 witness: a pass that provisioned bob before alice and then removed
\* charlie.
C22_Witness ==
    /\ PassDone
    /\ addedUsers = <<"bob", "alice">>
    /\ removedUsers = <<"charlie">>
    /\ Created = {"alice", "bob"}
    /\ Bound = {"alice", "bob"}
    /\ Deleted = {"charlie"}

\* C23: the controller never deletes a role binding: no step of it removes
\* one, so every role binding that existed when a handler was entered still
\* exists, also after the project of its member was deleted.
C23_RoleBindingsKept ==
    /\ [][rbs \subseteq rbs']_vars
    /\ [](rbs0 \subseteq rbs)

\* C23 witness: the pass deleted the project of a removed member and the
\* member's role binding is still there.
C23_Witness ==
    /\ PassDone
    /\ \E u \in Deleted :
         /\ u \notin projects
         /\ RoleBindingFor(u, u) \in rbs0
         /\ RoleBindingFor(u, u) \in rbs

\* The call c of the current run was followed by a klog.Errorf: in the added
\* loop a lookup error other than not-found, in the removed loop any lookup
\* error, and any error of a create or a delete.
ErrorLogged(c) ==
    CASE c.op = "getProject" /\ c.name \in ToSet(removedUsers) -> c.res # "ok"
      [] c.op \in {"getProject", "getRoleBinding"} -> c.res \notin {"ok", "notFound"}
      [] OTHER -> c.res # "ok"

\* A result that is a normal idempotency signal: not-found on a lookup,
\* already-exists on a create.
Benign(c) ==
    \/ c.op \in {"getProject", "getRoleBinding"} /\ c.res = "notFound"
    \/ c.op \in {"createProject", "createRoleBinding"} /\ c.res = "alreadyExists"

\* C24: benign idempotency signals are never logged as failures: no call that
\* returned not-found on a lookup, or already-exists on a create, is followed
\* by an error-level report.
C24_BenignNotReported ==
    \A k \in DOMAIN calls : Benign(calls[k]) => ~ErrorLogged(calls[k])

\* The pass was started by a resync: the informer handed UpdateFunc the
\* group's unchanged state as both the old and the new object.
ResyncPass == entry = "handleGroup" /\ ~oldNil /\ oldUsers = newUsers

\* C25: resync self-heals missed deltas: when the provisioning step of a
\* member failed in an earlier pass and the member is still in the group, a
\* pass started by a later resync attempts the member's provisioning again
\* (it looks the member's project up).
C25_ResyncRetries ==
    (PassDone /\ ResyncPass) =>
        \A u \in failed \cap newUsers : Issued("getProject", u)

\* The operations of the client calls.
Ops == {"getProject", "createProject", "getRoleBinding", "createRoleBinding",
        "deleteProject"}

\* C26: no retry within a pass: for each member, each gateway operation
\* (project lookup, project create, role-binding lookup, role-binding create,
\* project delete) is issued at most once in a pass, whatever its result.
C26_NoRetry ==
    entry = "handleGroup" =>
        \A u \in Users : \A op \in Ops : Count({op}, u) <= 1

\* C26 witness: the delete of a removed member's project failed, was issued
\* once, and the pass ended with the project still there.
C26_Witness ==
    /\ PassDone
    /\ \E u \in oldUsers \ newUsers :
         /\ \E k \in DOMAIN calls : calls[k] = Call("deleteProject", u, "err")
         /\ Count({"deleteProject"}, u) = 1
         /\ u \in projects

\* C27: every role binding a pass creates is, for some added member u, the
\* binding named u-edit in project u whose subject is the user u and whose
\* role reference is the ClusterRole edit; so no member is granted access to
\* a project named after another member.
C27_RoleBindingShape ==
    entry = "handleGroup" =>
        \A r \in rbs \ rbs0 :
            /\ r.subject \in newUsers \ oldUsers
            /\ r.namespace = r.subject
            /\ r.name = <<r.subject, "-edit">>
            /\ r.subjectKind = "User"
            /\ r.roleKind = "ClusterRole"
            /\ r.role = "edit"

\* C27 witness: a pass created the role binding of bob in the existing
\* project bob and, after creating project alice, that of alice.
C27_Witness ==
    /\ PassDone
    /\ "bob" \in projects0
    /\ "alice" \notin projects0
    /\ Cardinality(rbs \ rbs0) = 2
    /\ Bound = {"alice", "bob"}

\* C28: events for a group whose name differs from the configured target
\* group never cause a reconciliation pass: every notification queued for,
\* and handed to, the handlers is for the target group, and a change of
\* another group leaves the queue and the handlers as they are, so no gateway
\* call is issued on its behalf.
C28_OnlyTargetGroup ==
    /\ [](\A k \in DOMAIN queue : queue[k].group = target)
    /\ [][consumed' # consumed => Head(queue).group = target]_vars
    /\ [][filtered' # filtered => UNCHANGED <<queue, consumed, pc, calls, store>>]_vars

\* C28 witness: the change of another group was kept from the informer, and
\* a notification for the target group is being reconciled.
C28_Witness ==
    /\ filtered >= 1
    /\ consumed = 1
    /\ entry = "handleGroup"
    /\ calls # <<>>

\* C29: GetTargetGroupName returns the value of TARGET_GROUP_NAME when it is
\* set to a non-empty string, and the fixed default group name when it is
\* not set or set to the empty string.
C29_TargetGroupName ==
    /\ (env # {} /\ env # {""}) => target \in env
    /\ (env = {} \/ env = {""}) => target = defaultTargetGroupName

\* C29 witness: a controller constructed with TARGET_GROUP_NAME set to
\* my-custom-group.
C29_Witness ==
    /\ env = {"my-custom-group"}
    /\ target = "my-custom-group"

\* C30: when TARGET_GROUP_NAME is not set, the group the controller's
\* informer watches is redhat-ai-dev-edit-users.
C30_DefaultIsEditUsers ==
    (env = {} /\ informer \in {"listing", "synced"}) =>
        target = "redhat-ai-dev-edit-users"

\* The role-binding operations.
RbOps == {"getRoleBinding", "createRoleBinding"}

\* C31: in a pass, a role-binding operation for member u (lookup or create)
\* is issued only after project u was confirmed to exist in the same pass, by
\* a project lookup that found it or a project create that succeeded; and
\* when the create of project u failed with an error other than
\* already-exists, no role-binding operation is issued for u.
C31_BindingAfterProject ==
    entry = "handleGroup" =>
        /\ \A k \in DOMAIN calls :
             calls[k].op \in RbOps =>
                 \E j \in 1..(k - 1) :
                     \/ calls[j] = Call("getProject", calls[k].name, "ok")
                     \/ calls[j] = Call("createProject", calls[k].name, "ok")
        /\ \A u \in Users :
             (\E k \in DOMAIN calls : calls[k] = Call("createProject", u, "err"))
                 => Count(RbOps, u) = 0

\* C31 witness: the create of one member's project failed and nothing more
\* was done for that member, while another member's project was created and
\* bound.
C31_Witness ==
    /\ PassDone
    /\ \E u, v \in Users :
         /\ \E k \in DOMAIN calls : calls[k] = Call("createProject", u, "err")
         /\ Count(RbOps, u) = 0
         /\ Trace(v) = <<(<<"getProject", "notFound">>), (<<"createProject", "ok">>),
                         (<<"createRoleBinding", "ok">>)>>

\* C32: when the project lookup for an added member fails with an error
\* other than not-found, the pass issues neither a project create nor any
\* role-binding call for that member.
C32_LookupErrorSkipsMember ==
    entry = "handleGroup" =>
        \A u \in newUsers \ oldUsers :
            (\E k \in DOMAIN calls : calls[k] = Call("getProject", u, "err"))
                => Trace(u) = <<(<<"getProject", "err">>)>>

\* C32 witness: the lookup of an added member failed, the member was
\* skipped, and the pass went on to create the project of the next member.
C32_Witness ==
    /\ PassDone
    /\ Len(addedUsers) = 2
    /\ Trace(addedUsers[1]) = <<(<<"getProject", "err">>)>>
    /\ addedUsers[1] \notin projects
    /\ Count({"createProject"}, addedUsers[2]) = 1

\* Call k of the current run is preceded by a call c for the same name.
Preceded(k, op, res) ==
    \E j \in 1..(k - 1) : calls[j] = Call(op, calls[k].name, res)

\* C33 as stated: the role binding is always looked up before it is created,
\* on a freshly created project as on an existing one (every role-binding
\* create of a pass follows a role-binding lookup for the same member), and
\* when u-edit existed in project u no role-binding create is issued for u.
C33_AlwaysLooksUp ==
    entry = "handleGroup" =>
        /\ \A k \in DOMAIN calls :
             calls[k].op = "createRoleBinding" =>
                 \E res \in {"ok", "notFound", "err"} : Preceded(k, "getRoleBinding", res)
        /\ \A u \in Users :
             RoleBindingFor(u, u) \in rbs0 => Count({"createRoleBinding"}, u) = 0

\* C33 amended: the role binding is looked up before it is created only on
\* a project the lookup found existing; on a project the pass has just
\* created it is created without a lookup.  Every role-binding create
\* follows either a role-binding lookup that returned not-found or the
\* successful create of the project, and when project u and u-edit existed
\* at entry no role-binding create is issued for u.
C33_LooksUpOnExistingProject ==
    entry = "handleGroup" =>
        /\ \A k \in DOMAIN calls :
             calls[k].op = "createRoleBinding" =>
                 \/ Preceded(k, "getRoleBinding", "notFound")
                 \/ /\ Preceded(k, "createProject", "ok")
                    /\ Count({"getRoleBinding"}, calls[k].name) = 0
        /\ \A k \in DOMAIN calls :
             calls[k].op = "getRoleBinding" => Preceded(k, "getProject", "ok")
        /\ \A u \in projects0 :
             RoleBindingFor(u, u) \in rbs0 => Count({"createRoleBinding"}, u) = 0

\* C33 witness: in one pass a member's project was created and bound
\* without a lookup of the role binding, and for a member with project and
\* role binding the lookup found the binding and nothing was created.
C33_Witness ==
    /\ PassDone
    /\ \E u, v \in newUsers \ oldUsers :
         /\ Trace(u) = <<(<<"getProject", "notFound">>), (<<"createProject", "ok">>),
                         (<<"createRoleBinding", "ok">>)>>
         /\ v \in projects0
         /\ RoleBindingFor(v, v) \in rbs0
         /\ Trace(v) = <<(<<"getProject", "ok">>), (<<"getRoleBinding", "ok">>)>>

\* C34: members that are in both the previous and the new member set of an
\* Update event are untouched: the pass issues no gateway call for them,
\* whether or not their project or role binding exists.
C34_CommonMembersUntouched ==
    (entry = "handleGroup" /\ ~oldNil) =>
        \A u \in oldUsers \cap newUsers : Count(Ops, u) = 0

\* C34 witness: {alice, bob} -> {alice} with project bob existing and no
\* project alice: bob's project was deleted, nothing was issued for alice.
C34_Witness ==
    /\ PassDone /\ ~oldNil
    /\ oldUsers = {"alice", "bob"} /\ newUsers = {"alice"}
    /\ projects0 = {"bob"} /\ projects = {}
    /\ Count(Ops, "alice") = 0
    /\ Deleted = {"bob"}

\* Some list with the members S, as a Users list of a group object.
ListOf(S) == CHOOSE l \in Orders(S) : TRUE

C36_EqualSetsNoCall ==
    (ResyncPass /\ pc # "idle") =>
        /\ pc = "done"
        /\ addedUsers = <<>> /\ removedUsers = <<>>
        /\ calls = <<>>
        /\ projects = projects0
        /\ rbs = rbs0

\* An Update with the same member on both sides, one of the lists naming the
\* member twice, has been handled while the member had no project.
C36_Witness ==
    /\ PassDone /\ ResyncPass
    /\ dupUsers # {}
    /\ dupUsers \subseteq oldUsers
    /\ oldUsers \ projects # {}

\* C37: under any pattern of gateway failures, deleteProject(u) is issued
\* only by the handler of an Update whose old members contain u and whose new
\* members do not; the removed loop is at such a member whenever it is about
\* to delete, and a project leaves the store only in such a step.
C37_DeleteOnlyRemoved ==
    /\ \A k \in DOMAIN calls :
         calls[k].op = "deleteProject" =>
             /\ event = "Update" /\ entry = "handleGroup" /\ ~oldNil
             /\ calls[k].name \in oldUsers \ newUsers
    /\ pc = "remDelete" =>
         /\ event = "Update" /\ ~oldNil
         /\ CurRemoved \in oldUsers \ newUsers
    /\ pc # "idle" => projects0 \ projects \subseteq oldUsers \ newUsers

\* An Update pass with failing gateway calls has deleted the project of a
\* removed member while a member of the new set had its own project.
C37_Witness ==
    /\ PassDone /\ event = "Update"
    /\ ~NoFailure
    /\ Deleted # {}
    /\ newUsers \cap projects # {}

\* The creation of the group is being handled, or was handled last, and the
\* event before it was the deletion of the group.
Recreated == hist.on /\ hist.kind = "Add" /\ hist.prev = "Delete"

====
